---- MODULE Spec2Model ----
(***************************************************************************)
(* git-profiles-cli (src/src/main.rs): a command line tool that keeps Git  *)
(* identity profiles (name, email, alias) in the SQLite table `profiles`   *)
(* and switches the global Git identity by running `git config --global`.  *)
(*                                                                         *)
(* One process run performs exactly one of the subcommands list, add and   *)
(* switch, so every action below is one complete run of main().  The       *)
(* state that survives a run is the table (profiles) and Git's global      *)
(* configuration (gitEmail, gitName); the other variables record what the  *)
(* last run was asked (cmd), what it printed (stdout), which git writes it  *)
(* made (gitWrites), which row switch looked up (found), what git printed  *)
(* for the read that list used (output) and how the run ended (exit: "ok"  *)
(* or the message of the expect() that panicked).                          *)
(*                                                                         *)
(* Strings that the program converts (LIKE matching, trim) are sequences   *)
(* of one-character strings; an Option<T> or a possibly unset config key   *)
(* is a sequence of length 0 (None / unset) or 1 (Some(v) / set to v).     *)
(***************************************************************************)
EXTENDS Integers, Sequences, FiniteSets, TLC

VARIABLES profiles, gitEmail, gitName, cmd, exit, stdout, gitWrites, found, output

vars == <<profiles, gitEmail, gitName, cmd, exit, stdout, gitWrites, found, output>>

\* Largest number of rows the table is allowed to grow to in the model.
MaxProfiles == 2

None == <<>>

Some(v) == <<v>>

\* ------------------------------------------------------------ input values
\* The (name, email) pairs add is called with: one name with two emails, one
\* email with two names, an email with a leading blank, an empty email.
Identities == {<<"Alice", <<"x">>>>, <<"Alice", <<" ", "x">>>>,
               <<"Bob", <<" ", "x">>>>, <<"Bob", <<>>>>}

AliasVals == {<<"a">>, <<"A", "b">>, <<>>}

AliasFilters == {None, Some(<<>>), Some(<<"a">>), Some(<<"_">>), Some(<<"%">>),
                 Some(<<"c">>)}

EmailFilters == {None, Some(<<"x">>)}

\* How one `Command::new("git") ... .output()` can end: the tool ran and did
\* its job, the tool ran and exited non-zero without effect, or the process
\* could not be started at all (output() returns Err).
GitOutcomes == {"ok", "nonzero", "spawnfail"}

\* ------------------------------------------------------------ pure helpers
unwrap_or_default(opt) == IF opt = None THEN <<>> ELSE opt[1]

\* ASCII case folding, as SQLite's LIKE applies it.
Lower(c) == IF c = "A" THEN "a" ELSE IF c = "B" THEN "b" ELSE c

RECURSIVE LikeMatch(_, _)
\* SQLite `s LIKE p` (no ESCAPE): % is any run of characters, _ is any one
\* character, every other character compares ignoring ASCII case.
LikeMatch(p, s) ==
    IF p = <<>> THEN s = <<>>
    ELSE IF Head(p) = "%"
         THEN LikeMatch(Tail(p), s) \/ (s # <<>> /\ LikeMatch(p, Tail(s)))
         ELSE /\ s # <<>>
              /\ (Head(p) = "_" \/ Lower(Head(p)) = Lower(Head(s)))
              /\ LikeMatch(Tail(p), Tail(s))

IsWhitespace(c) == c \in {" ", "\n"}

RECURSIVE TrimStart(_)
TrimStart(s) ==
    IF s # <<>> /\ IsWhitespace(Head(s)) THEN TrimStart(Tail(s)) ELSE s

RECURSIVE TrimEnd(_)
TrimEnd(s) ==
    IF s # <<>> /\ IsWhitespace(s[Len(s)])
    THEN TrimEnd(SubSeq(s, 1, Len(s) - 1))
    ELSE s

trim_end_only(s) == TrimEnd(s)

trim(s) == TrimEnd(TrimStart(s))

\* ------------------------------------------------------------ the table
GitProfile(name, email, alias) == [name |-> name, email |-> email, alias |-> alias]

\* The schema of `profiles`: email is UNIQUE NOT NULL and alias is UNIQUE.
\* add always binds a string for alias (never NULL), so two equal aliases
\* collide whatever their value, the empty string included; both columns
\* compare with the BINARY collation, that is exactly.
ConstraintViolationEmailOnly(rows, email, alias) ==
    \E i \in 1..Len(rows) : rows[i].email = email

ConstraintViolationAliasOnly(rows, email, alias) ==
    \E i \in 1..Len(rows) : rows[i].alias = alias

ConstraintViolation(rows, email, alias) ==
    \E i \in 1..Len(rows) : rows[i].email = email \/ rows[i].alias = alias

\* `INSERT INTO profiles (email, name, alias) VALUES (?1, ?2, ?3)`: the new
\* row gets the next rowid, one more than the largest in the table.
InsertFront(rows, profile) == <<profile>> \o rows

Insert(rows, profile) == Append(rows, profile)

\* `select alias, email, name from profiles;`: every row, in rowid order.
list_all_reversed(rows) == [i \in 1..Len(rows) |-> rows[Len(rows) + 1 - i]]

list_all(rows) == rows

\* `select ... from profiles where alias like :alias or email = :email
\* limit 1` with :alias = "%" + alias_str + "%": the first row in rowid
\* order that satisfies the WHERE clause, as an Option.
RowMatchesEmailLike(row, alias, email) ==
    \/ LikeMatch(<<"%">> \o unwrap_or_default(alias) \o <<"%">>, row.alias)
    \/ LikeMatch(<<"%">> \o unwrap_or_default(email) \o <<"%">>, row.email)

RowMatchesCaseSensitive(row, alias, email) ==
    \/ \E a \in 1..(Len(row.alias) + 1), b \in 0..Len(row.alias) :
          /\ b >= a - 1
          /\ SubSeq(row.alias, a, b) = unwrap_or_default(alias)
    \/ row.email = unwrap_or_default(email)

RowMatches(row, alias, email) ==
    \/ LikeMatch(<<"%">> \o unwrap_or_default(alias) \o <<"%">>, row.alias)
    \/ row.email = unwrap_or_default(email)

profiles_query(rows, alias, email) ==
    LET hits == {i \in 1..Len(rows) : RowMatches(rows[i], alias, email)}
    IN  IF hits = {} THEN None
        ELSE Some(rows[CHOOSE i \in hits : \A j \in hits : i <= j])

\* ------------------------------------------------------------ git
\* What `git config --global --get user.email` writes to its standard
\* output: the value and a newline when it ran and the key is set, nothing
\* when the key is unset or git exited with an error.
GitGetStdout(outcome) ==
    IF outcome = "ok" /\ gitEmail # None THEN gitEmail[1] \o <<"\n">> ELSE <<>>

\* The value get_current_profile returns when git could be started.
get_current_profile(outcome) == trim(GitGetStdout(outcome))

\* A `git config --global <key> <value>` invocation: the key's new value.
GitSet(old, value, outcome) == IF outcome = "ok" THEN Some(value) ELSE old

GitWrite(key, value, outcome) == [outcome |-> outcome, value |-> value, key |-> key]

\* ------------------------------------------------------------ output
AddedLine == [email |-> <<>>, alias |-> <<>>, rows |-> <<>>, kind |-> "added"]

ChangedLine(alias, email) ==
    [email |-> email, alias |-> alias, rows |-> <<>>, kind |-> "changed"]

TableLine(rows) == [email |-> <<>>, alias |-> <<>>, rows |-> rows, kind |-> "table"]

\* One row of the table list prints; bold stands for bold + italic cells.
TableRow(profile, current_email) ==
    [name |-> profile.name, email |-> profile.email, alias |-> profile.alias,
     bold |-> (profile.email = current_email)]

Command(op, name, email, alias) ==
    [name |-> name, email |-> email, alias |-> alias, op |-> op]

\* ------------------------------------------------------------ runs
Init ==
    /\ profiles = <<>>
    /\ gitEmail = None
    /\ gitName = None
    /\ cmd = Command("none", None, None, None)
    /\ exit = "ok"
    /\ stdout = <<>>
    /\ gitWrites = <<>>
    /\ found = None
    /\ output = None

\* main() up to the match: the table is created if absent, then
\* get_current_profile() runs once and its value is dropped.  This is the
\* run in which git cannot be started for that read: it ends here, whatever
\* the subcommand; the other actions are the runs that get past it.
Startup(command) ==
    /\ cmd' = command
    /\ exit' = "Error getting the email"
    /\ stdout' = <<>>
    /\ gitWrites' = <<>>
    /\ found' = None
    /\ output' = None
    /\ UNCHANGED <<profiles, gitEmail, gitName>>

\* `list`: the rows in rowid order, the row whose email equals the trimmed
\* current email in bold italics.
list_profiles(outcome) ==
    /\ cmd' = Command("list", None, None, None)
    /\ gitWrites' = <<>>
    /\ found' = None
    /\ IF outcome = "spawnfail"
       THEN exit' = "Error getting the email" /\ stdout' = <<>> /\ output' = None
       ELSE /\ exit' = "ok"
            /\ output' = Some(GitGetStdout(outcome))
            /\ stdout' = <<TableLine([i \in 1..Len(list_all(profiles)) |->
                              TableRow(list_all(profiles)[i],
                                       get_current_profile(outcome))])>>
    /\ UNCHANGED <<profiles, gitEmail, gitName>>

List ==
    \/ Startup(Command("list", None, None, None))
    \/ \E outcome \in GitOutcomes : list_profiles(outcome)

\* `add`: one INSERT; a constraint violation panics in add_profile.
add_profile(name, alias, email) ==
    /\ cmd' = Command("add", Some(name), Some(email), Some(alias))
    /\ gitWrites' = <<>>
    /\ found' = None
    /\ output' = None
    /\ IF ConstraintViolation(profiles, email, alias)
       THEN /\ exit' = "Error adding new profile to DB."
            /\ stdout' = <<>>
            /\ UNCHANGED profiles
       ELSE /\ Len(profiles) < MaxProfiles
            /\ profiles' = Insert(profiles, GitProfile(name, email, alias))
            /\ exit' = "ok"
            /\ stdout' = <<AddedLine>>
    /\ UNCHANGED <<gitEmail, gitName>>

Add ==
    \E id \in Identities, alias \in AliasVals :
        \/ Startup(Command("add", Some(id[1]), Some(id[2]), Some(alias)))
        \/ add_profile(id[1], alias, id[2])

\* change_profile: two git invocations, then the confirmation.  output()
\* is an Err only when git cannot be started; the exit status of a git that
\* ran is not looked at.
ChangePanics(outcome) == outcome = "spawnfail"

change_profile(profile) ==
    \/ \E o1 \in GitOutcomes :
        /\ ChangePanics(o1)
        /\ exit' = "Error setting the email"
        /\ stdout' = <<>>
        /\ gitWrites' = <<GitWrite("user.email", profile.email, o1)>>
        /\ UNCHANGED <<gitEmail, gitName>>
    \/ \E o1, o2 \in GitOutcomes :
        /\ ~ChangePanics(o1)
        /\ gitEmail' = GitSet(gitEmail, profile.email, o1)
        /\ gitWrites' = <<GitWrite("user.email", profile.email, o1),
                          GitWrite("user.name", profile.name, o2)>>
        /\ IF ChangePanics(o2)
           THEN /\ exit' = "Error setting the name"
                /\ stdout' = <<>>
                /\ UNCHANGED gitName
           ELSE /\ gitName' = GitSet(gitName, profile.name, o2)
                /\ exit' = "ok"
                /\ stdout' = <<ChangedLine(profile.alias, profile.email)>>

\* `switch`: set_profile_from_db looks one profile up and hands it to
\* change_profile; with no row the loop body never runs.
set_profile_from_db(alias, email) ==
    /\ cmd' = Command("switch", None, email, alias)
    /\ found' = profiles_query(profiles, alias, email)
    /\ output' = None
    /\ IF found' = None
       THEN /\ exit' = "ok"
            /\ stdout' = <<>>
            /\ gitWrites' = <<>>
            /\ UNCHANGED <<gitEmail, gitName>>
       ELSE change_profile(found'[1])
    /\ UNCHANGED profiles

Switch ==
    \E alias \in AliasFilters, email \in EmailFilters :
        \/ Startup(Command("switch", None, email, alias))
        \/ set_profile_from_db(alias, email)

Next == List \/ Add \/ Switch

Spec == Init /\ [][Next]_vars

\* ============================================================ properties
\* Vocabulary of the properties, stated without the operators above.
Triple(r) == <<r.name, r.email, r.alias>>

RanList == cmd.op = "list" /\ exit = "ok"

AddSucceeded == cmd.op = "add" /\ exit = "ok"

AddFailed == cmd.op = "add" /\ exit = "Error adding new profile to DB."

Listing == [i \in 1..Len(stdout[1].rows) |->
              <<stdout[1].rows[i].name, stdout[1].rows[i].email, stdout[1].rows[i].alias>>]

Stored == [i \in 1..Len(profiles) |-> Triple(profiles[i])]

IsPrefix(s, t) == Len(s) <= Len(t) /\ SubSeq(t, 1, Len(s)) = s

Confirmation == \E i \in 1..Len(stdout) : stdout[i].kind \in {"added", "changed"}

\* C1: an add that succeeds leaves the rows stored before it in place and in
\* order and puts exactly one row equal to (name, email, alias) after them,
\* and a listing shows the stored rows in that insertion order.
C1_AddAppendsListInOrder ==
    /\ [](RanList => (Len(stdout) = 1 /\ stdout[1].kind = "table" /\ Listing = Stored))
    /\ [][AddSucceeded' =>
            /\ Len(profiles') = Len(profiles) + 1
            /\ SubSeq(profiles', 1, Len(profiles)) = profiles
            /\ Triple(profiles'[Len(profiles')]) = <<cmd'.name[1], cmd'.email[1], cmd'.alias[1]>>
            /\ Cardinality({i \in 1..Len(profiles') :
                   Triple(profiles'[i]) = <<cmd'.name[1], cmd'.email[1], cmd'.alias[1]>>}) = 1
         ]_vars

C1_Witness ==
    /\ RanList
    /\ Len(stdout[1].rows) = 2
    /\ Listing = Stored
    /\ Listing[1] # Listing[2]

\* C2: an add whose email is the email of a stored row, or whose non-empty
\* alias is the alias of a stored row, ends with an error, prints no
\* confirmation and leaves the table as it was.
Collides(rows, c) ==
    \E i \in 1..Len(rows) :
        \/ rows[i].email = c.email[1]
        \/ (c.alias[1] # <<>> /\ rows[i].alias = c.alias[1])

C2_DuplicateAddFails ==
    [][(cmd'.op = "add" /\ Collides(profiles, cmd')) =>
          (exit' # "ok" /\ ~Confirmation' /\ profiles' = profiles)]_vars

C2_Witness ==
    /\ AddFailed
    /\ \E i \in 1..Len(profiles) :
          /\ profiles[i].alias = cmd.alias[1]
          /\ profiles[i].alias # <<>>
          /\ profiles[i].email # cmd.email[1]
    /\ \A i \in 1..Len(profiles) : profiles[i].email # cmd.email[1]

\* C3: in every reachable state no two stored rows have the same email and no
\* two stored rows have the same non-empty alias.
C3_UniqueEmailAndAlias ==
    \A i, j \in 1..Len(profiles) :
        i # j => /\ profiles[i].email # profiles[j].email
                 /\ (profiles[i].alias # <<>> => profiles[i].alias # profiles[j].alias)

C3_Witness ==
    /\ AddFailed
    /\ Len(profiles) >= 2
    /\ \E i \in 1..Len(profiles) : profiles[i].email = cmd.email[1]

\* C10: rows are created only by add and never changed, moved or removed: a
\* run of list or switch leaves the table as it was, every run leaves the old
\* rows where they were, and list and add never write Git's configuration.
C10_RowsOnlyAdded ==
    [][/\ IsPrefix(profiles, profiles')
       /\ (cmd'.op \in {"list", "switch"} => profiles' = profiles)
       /\ (profiles' # profiles => cmd'.op = "add" /\ Len(profiles') = Len(profiles) + 1)
       /\ (cmd'.op \in {"list", "add"} =>
              (gitEmail' = gitEmail /\ gitName' = gitName /\ gitWrites' = <<>>))
      ]_vars

C10_Witness ==
    /\ cmd.op = "switch"
    /\ exit = "ok"
    /\ found # None
    /\ Len(profiles) = 2
    /\ gitEmail = Some(profiles[2].email)


\* ------------------------------------------------------------ switch
SwitchLookedUp == cmd.op = "switch" /\ exit # "Error getting the email"

SwitchConfirmed ==
    /\ cmd.op = "switch"
    /\ exit = "ok"
    /\ Len(stdout) = 1
    /\ stdout[1].kind = "changed"

AliasFilterOf(c) == IF c.alias = None THEN <<>> ELSE c.alias[1]

EmailFilterOf(c) == IF c.email = None THEN <<>> ELSE c.email[1]

Slices(s) == {SubSeq(s, a, b) : a \in 1..(Len(s) + 1), b \in 0..Len(s)}

IsSubstring(w, s) == w \in Slices(s)

Fold(c) == CASE c = "A" -> "a" [] c = "B" -> "b" [] OTHER -> c

\* w is f read as a pattern: _ stands for any one character, % for any run
\* of characters, every other character for itself in either ASCII case.
GlobEq(f, w) ==
    IF \A i \in 1..Len(f) : f[i] # "%"
    THEN /\ Len(f) = Len(w)
         /\ \A i \in 1..Len(f) : f[i] = "_" \/ Fold(f[i]) = Fold(w[i])
    ELSE \E pos \in [1..(Len(f) + 1) -> 1..(Len(w) + 1)] :
            /\ pos[1] = 1
            /\ pos[Len(f) + 1] = Len(w) + 1
            /\ \A i \in 1..Len(f) :
                  IF f[i] = "%"
                  THEN pos[i + 1] >= pos[i]
                  ELSE /\ pos[i + 1] = pos[i] + 1
                       /\ (f[i] = "_" \/ Fold(f[i]) = Fold(w[pos[i]]))

SubstringHit(r, c) ==
    IsSubstring(AliasFilterOf(c), r.alias) \/ r.email = EmailFilterOf(c)

LikeHit(r, c) ==
    (\E w \in Slices(r.alias) : GlobEq(AliasFilterOf(c), w)) \/ r.email = EmailFilterOf(c)

\* C4 (as claimed): every switch that found a profile P and ended well has
\* set user.email to P.email and user.name to P.name and has printed the
\* confirmation naming P's alias and email.
C4_SwitchOverwritesIdentity ==
    (cmd.op = "switch" /\ exit = "ok" /\ found # None) =>
        /\ gitEmail = Some(found[1].email)
        /\ gitName = Some(found[1].name)
        /\ SwitchConfirmed
        /\ stdout[1].alias = found[1].alias
        /\ stdout[1].email = found[1].email

C6_FirstSubstringOrEmailMatch ==
    SwitchLookedUp =>
        IF \A i \in 1..Len(profiles) : ~SubstringHit(profiles[i], cmd)
        THEN found = None
        ELSE \E i \in 1..Len(profiles) :
                /\ SubstringHit(profiles[i], cmd)
                /\ \A j \in 1..(i - 1) : ~SubstringHit(profiles[j], cmd)
                /\ found = Some(profiles[i])

\* C6 (amended): the lookup of switch yields the first row in storage order
\* whose alias matches the LIKE pattern %filter% (it contains a run that
\* equals the filter ignoring ASCII case, _ in the filter standing for any
\* one character and % for any run) or whose email equals the email filter,
\* and none when there is no such row; an absent filter is the empty string.
C6_FirstLikeOrEmailMatch ==
    SwitchLookedUp =>
        IF \A i \in 1..Len(profiles) : ~LikeHit(profiles[i], cmd)
        THEN found = None
        ELSE \E i \in 1..Len(profiles) :
                /\ LikeHit(profiles[i], cmd)
                /\ \A j \in 1..(i - 1) : ~LikeHit(profiles[j], cmd)
                /\ found = Some(profiles[i])

C6_Witness ==
    /\ SwitchLookedUp
    /\ Len(profiles) = 2
    /\ found = Some(profiles[2])
    /\ cmd.alias = Some(<<"a">>)
    /\ ~IsSubstring(<<"a">>, profiles[2].alias)
    /\ profiles[2].email # EmailFilterOf(cmd)

\* C7 (as claimed): with the alias filter absent or empty and a row stored,
\* the lookup yields the first-inserted row whatever the email filter, and the
\* switch sets user.email and user.name to that row's values.
C7_EmptyAliasSwitchesToFirst ==
    (cmd.op = "switch" /\ exit = "ok" /\ AliasFilterOf(cmd) = <<>> /\ Len(profiles) >= 1) =>
        /\ found = Some(profiles[1])
        /\ gitEmail = Some(profiles[1].email)
        /\ gitName = Some(profiles[1].name)

\* C8 (as claimed): when either git invocation of a switch fails (git cannot
\* be started, or it exits non-zero) the run ends with an error and prints no
\* confirmation; a confirmation means both writes succeeded.
C8_FailedWriteIsAnError ==
    /\ (cmd.op = "switch" /\ \E i \in 1..Len(gitWrites) : gitWrites[i].outcome # "ok") =>
           (exit # "ok" /\ ~Confirmation)
    /\ SwitchConfirmed =>
           (Len(gitWrites) = 2 /\ \A i \in 1..2 : gitWrites[i].outcome = "ok")

\* ------------------------------------------------------------ list
Blank(c) == c = " " \/ c = "\n"

\* t is s without its leading and trailing whitespace.
IsTrimOf(t, s) ==
    \E a \in 1..(Len(s) + 1), b \in 0..Len(s) :
        /\ b >= a - 1
        /\ t = SubSeq(s, a, b)
        /\ \A k \in 1..Len(s) : (k < a \/ k > b) => Blank(s[k])
        /\ (t # <<>> => (~Blank(t[1]) /\ ~Blank(t[Len(t)])))

CurrentEmail == IF gitEmail = None THEN <<>> ELSE gitEmail[1]

BoldRows == {i \in 1..Len(stdout[1].rows) : stdout[1].rows[i].bold}

\* git ran and printed the value of user.email (nothing when it is unset).
GitPrintedCurrent ==
    output = Some(IF gitEmail = None THEN <<>> ELSE gitEmail[1] \o <<"\n">>)

\* C9 (as claimed): list prints one row per stored profile in storage order
\* and a row is emphasised exactly when its email equals the current global
\* user.email, so at most one row is emphasised.  Stated for the runs in
\* which git answered the read of user.email.
C9_BoldIffCurrentEmail ==
    (RanList /\ GitPrintedCurrent) =>
        /\ Listing = Stored
        /\ \A i \in 1..Len(stdout[1].rows) :
              stdout[1].rows[i].bold <=> (stdout[1].rows[i].email = CurrentEmail)
        /\ Cardinality(BoldRows) <= 1

\* C9 (amended): list prints one row per stored profile in storage order and
\* a row is emphasised exactly when its email equals what git printed for
\* user.email with leading and trailing whitespace removed (nothing is
\* printed when the key is unset or git exits with an error); at most one row
\* is emphasised, and when git printed the current user.email and that value
\* has no whitespace at either end, the emphasised rows are those with it.
C9_BoldIffTrimmedOutput ==
    RanList =>
        /\ Listing = Stored
        /\ output # None
        /\ output[1] \in {<<>>} \cup {g \o <<"\n">> : g \in {gitEmail[i] : i \in 1..Len(gitEmail)}}
        /\ \A i \in 1..Len(stdout[1].rows) :
              stdout[1].rows[i].bold <=> IsTrimOf(stdout[1].rows[i].email, output[1])
        /\ Cardinality(BoldRows) <= 1
        /\ (/\ gitEmail # None
            /\ output[1] = CurrentEmail \o <<"\n">>
            /\ IsTrimOf(CurrentEmail, CurrentEmail)) =>
               BoldRows = {i \in 1..Len(profiles) : profiles[i].email = CurrentEmail}

C9_Witness ==
    /\ RanList
    /\ Len(profiles) = 2
    /\ gitEmail = Some(profiles[2].email)
    /\ gitName = Some(profiles[2].name)
    /\ BoldRows = {2}

====
